---------------------------- MODULE Spec2Model ----------------------------
(***************************************************************************)
(* thermo-sys: a thermodynamic cycle (ThermodynamicCycle / BraytonCycle)   *)
(* threads a working-fluid state through an ordered list of devices.       *)
(*                                                                         *)
(* Sources: src/thermosys/models/cycles.py, src/thermosys/models/devices.py*)
(*                                                                         *)
(* Numbers.  Pressures, temperatures and enthalpies are small integers.    *)
(* A sum of energy balances is a float of MantissaBits binary digits, so   *)
(* that an addition rounds as a float64 addition does.                     *)
(* A device's efficiency (a decimal in the code) is held in hundredths, so *)
(* `self.efficiency * 100` is the stored number itself.                    *)
(*                                                                         *)
(* Python's None for a device's inlet_state / outlet_state is the record   *)
(* None below (pressure 0, which no fluid state has).                      *)
(***************************************************************************)
EXTENDS Integers, Sequences, FiniteSets, TLC

\* ------------------------------------------------------------------ bounds
\* The cycle holds at most MaxDevices devices.
MaxDevices == 3
\* The property backend resolves pressures 1..MaxP and temperatures 0..MaxT.
MaxP == 4
MaxT == 6

\* The binary digits of a float's significand in the model.
MantissaBits == 8

\* ------------------------------------------------------------ fluid states
None == [fluid |-> "None", p |-> 0, t |-> 0, h |-> 0, x |-> -1]

Abs(n) == IF n < 0 THEN -n ELSE n

\* -------------------------------------------------- the property backend
\* (pyfluids: an external collaborator; a deterministic function that either
\* resolves a full state or raises.)
Cp(fluid) == IF fluid = "Water" THEN 3 ELSE 2

Resolvable(p, t) == p >= 1 /\ p <= MaxP /\ t >= 0 /\ t <= MaxT

Raise(e) == [ok |-> FALSE, err |-> e, st |-> None]
Return(s) == [ok |-> TRUE, err |-> "none", st |-> s]

\* Fluid(fluid).with_state(Input.pressure(p), Input.temperature(t))
with_state(fluid, p, t) ==
    IF Resolvable(p, t)
    THEN Return([fluid |-> fluid, p |-> p, t |-> t, h |-> Cp(fluid) * t, x |-> -1])
    ELSE Raise("BackendError")

\* the state at pressure p and enthalpy h
with_enthalpy(fluid, p, h) ==
    IF h >= 0 /\ Resolvable(p, h \div Cp(fluid))
    THEN Return([fluid |-> fluid, p |-> p, t |-> h \div Cp(fluid), h |-> h, x |-> -1])
    ELSE Raise("BackendError")

\* The enthalpy change of the isentropic process from s to the pressure: the
\* temperature scales with the pressure.
IsentropicChange(s, pressure) ==
    Abs(Cp(s.fluid) * ((s.t * pressure) \div s.p) - s.h)

\* state.compression_to_pressure(pressure, isentropic_efficiency): the
\* isentropic enthalpy rise divided by the efficiency (in percent).
compression_to_pressure(s, pressure, isentropic_efficiency) ==
    IF pressure <= s.p \/ isentropic_efficiency < 1 \/ isentropic_efficiency > 100
    THEN Raise("BackendError")
    ELSE with_enthalpy(s.fluid, pressure,
            s.h + (IsentropicChange(s, pressure) * 100) \div isentropic_efficiency)

\* state.expansion_to_pressure(pressure, isentropic_efficiency): the
\* isentropic enthalpy drop times the efficiency (in percent).
expansion_to_pressure(s, pressure, isentropic_efficiency) ==
    IF pressure >= s.p \/ isentropic_efficiency < 1 \/ isentropic_efficiency > 100
    THEN Raise("BackendError")
    ELSE with_enthalpy(s.fluid, pressure,
            s.h - (IsentropicChange(s, pressure) * isentropic_efficiency) \div 100)

\* state.cooling_to_enthalpy(enthalpy, pressure_drop)
cooling_to_enthalpy(s, enthalpy, pressure_drop) ==
    IF enthalpy >= s.h \/ pressure_drop < 0
    THEN Raise("BackendError")
    ELSE with_enthalpy(s.fluid, s.p - pressure_drop, enthalpy)

\* Fluid(fluid).dew_point_at_pressure(pressure): the saturated-vapour point
\* (quality 100) at that pressure.
dew_point_at_pressure(fluid, pressure) ==
    IF Resolvable(pressure, pressure)
    THEN Return([fluid |-> fluid, p |-> pressure, t |-> pressure,
                 h |-> Cp(fluid) * pressure + 1, x |-> 100])
    ELSE Raise("BackendError")

\* ----------------------------------------------------------------- devices
\* A device object: its class, its constructor arguments (0 / "None" for the
\* attributes its class does not have) and the two recorded states.
\* The arguments are (cls, efficiency, fluid_type, compression_ratio,
\* outlet_pressure, outlet_temperature, pressure, temperature).
NewDevice(cls, eff, fl, cr, op, ot, pr, te) ==
    [cls |-> cls, efficiency |-> eff, fluid_type |-> fl,
     compression_ratio |-> cr, outlet_pressure |-> op,
     outlet_temperature |-> ot, pressure |-> pr, temperature |-> te,
     inlet_state |-> None, outlet_state |-> None]

\* The constructor calls the model draws devices from.
Catalogue ==
    { NewDevice("GasCompressor", 50, "None", 2, 0, 0, 0, 0),
      NewDevice("HeatSourceDevice", 0, "Air", 0, 0, 5, 0, 0),
      NewDevice("Turbine", 100, "Air", 0, 1, 0, 0, 0),
      NewDevice("Condenser", 0, "Water", 0, 0, 0, 1, 0),
      NewDevice("Pump", 50, "None", 0, 3, 0, 0, 0),
      NewDevice("Deaerator", 0, "None", 0, 0, 0, 0, 2) }

device_type(d) ==
    CASE d.cls = "GasCompressor" -> "compressor"
      [] d.cls = "HeatSourceDevice" -> "heat_source"
      [] d.cls = "Turbine" -> "turbine"
      [] d.cls = "Condenser" -> "condenser"
      [] d.cls = "Pump" -> "pump"
      [] d.cls = "Deaerator" -> "deaerator"

\* Whether the class defines get_outlet_state / energy_balance.
IsSingleInletOutletDevice(d) == d.cls # "Deaerator"

\* ------------------------------------------------------ backend requests
\* What a method asks of the backend: the object the calls start from, either
\* a new Fluid(fluid) or the inlet_state it was given, and the calls, each
\* <<method, first argument, second argument>>, each made on the result of
\* the one before.
Request(receiver, fluid, backend_calls) ==
    [receiver |-> receiver, fluid |-> fluid, calls |-> backend_calls]

\* Fluid(fluid): an instance with no state yet.
Fluid(fluid) == [fluid |-> fluid, p |-> 0, t |-> 0, h |-> 0, x |-> -1]

\* One backend call on the instance s.  Each of these methods returns a new
\* instance; self is s as the call leaves it.
Apply(s, c) ==
    LET Left(r) == [ok |-> r.ok, err |-> r.err, st |-> r.st, self |-> s]
    IN Left(CASE c[1] = "with_state" -> with_state(s.fluid, c[2], c[3])
              [] c[1] = "compression_to_pressure" -> compression_to_pressure(s, c[2], c[3])
              [] c[1] = "expansion_to_pressure" -> expansion_to_pressure(s, c[2], c[3])
              [] c[1] = "cooling_to_enthalpy" -> cooling_to_enthalpy(s, c[2], c[3])
              [] c[1] = "dew_point_at_pressure" -> dew_point_at_pressure(s.fluid, c[2]))

\* The calls of a request from the i-th on, made on s.
RECURSIVE Chain(_, _, _)
Chain(s, backend_calls, i) ==
    IF i > Len(backend_calls) THEN Return(s)
    ELSE LET Then(r) == IF r.ok THEN Chain(r.st, backend_calls, i + 1)
                        ELSE Raise(r.err)
         IN Then(Apply(s, backend_calls[i]))

\* The request q made by a method that was given inlet_state: what it returns
\* or raises, and the inlet_state object as the method leaves it (the method
\* touches it only when the calls are made on it).
Perform(q, inlet_state) ==
    LET onInlet == q.receiver = "inlet_state"
        Left(r, inlet) == [ok |-> r.ok, err |-> r.err, st |-> r.st, inlet |-> inlet]
    IN Left(Chain(IF onInlet THEN inlet_state ELSE Fluid(q.fluid), q.calls, 1),
            IF onInlet /\ q.calls # << >>
            THEN Apply(inlet_state, q.calls[1]).self ELSE inlet_state)

\* (mutant) the efficiency handed over as the decimal, not as a percentage.
GasCompressor_request_decimal(d, inlet_state) ==
    Request("Fluid", "Air",
        << <<"with_state", inlet_state.p, inlet_state.t>>,
           <<"compression_to_pressure", inlet_state.p * d.compression_ratio,
             d.efficiency \div 100>> >>)

GasCompressor_request(d, inlet_state) ==
    Request("Fluid", "Air",
        << <<"with_state", inlet_state.p, inlet_state.t>>,
           <<"compression_to_pressure", inlet_state.p * d.compression_ratio,
             d.efficiency>> >>)

GasCompressor_get_outlet_state(d, inlet_state) ==
    Perform(GasCompressor_request(d, inlet_state), inlet_state)

HeatSourceDevice_request(d, inlet_state) ==
    Request("Fluid", d.fluid_type,
        << <<"with_state", inlet_state.p, d.outlet_temperature>> >>)

HeatSourceDevice_get_outlet_state(d, inlet_state) ==
    Perform(HeatSourceDevice_request(d, inlet_state), inlet_state)

\* (mutant) the energy balance times the efficiency.
TimesEfficiency(energy_balance, efficiency) == (energy_balance * efficiency) \div 100

\* energy_balance / self.efficiency, the efficiency in hundredths.  Python
\* raises ZeroDivisionError for a zero efficiency.
OverEfficiency(energy_balance, efficiency) == (energy_balance * 100) \div efficiency

\* (mutant) the pressure drop without the absolute value.
Turbine_request_signed_drop(d, inlet_state, energy_balance) ==
    Request("Fluid", d.fluid_type,
        << <<"with_state", inlet_state.p, inlet_state.t>>,
           IF energy_balance # << >>
           THEN <<"cooling_to_enthalpy",
                  inlet_state.h - OverEfficiency(energy_balance[1], d.efficiency),
                  inlet_state.p - d.outlet_pressure>>
           ELSE <<"expansion_to_pressure", d.outlet_pressure, d.efficiency>> >>)

\* energy_balance is << >> for the argument's default, None, and <<X>> for X.
Turbine_request(d, inlet_state, energy_balance) ==
    Request("Fluid", d.fluid_type,
        << <<"with_state", inlet_state.p, inlet_state.t>>,
           IF energy_balance # << >>
           THEN <<"cooling_to_enthalpy",
                  inlet_state.h - OverEfficiency(energy_balance[1], d.efficiency),
                  Abs(inlet_state.p - d.outlet_pressure)>>
           ELSE <<"expansion_to_pressure", d.outlet_pressure, d.efficiency>> >>)

Turbine_get_outlet_state(d, inlet_state, energy_balance) ==
    Perform(Turbine_request(d, inlet_state, energy_balance), inlet_state)

Condenser_request(d, inlet_state) ==
    Request("Fluid", d.fluid_type, << <<"dew_point_at_pressure", d.pressure, 0>> >>)

Condenser_get_outlet_state(d, inlet_state) ==
    Perform(Condenser_request(d, inlet_state), inlet_state)

Pump_request(d, inlet_state) ==
    Request("inlet_state", inlet_state.fluid,
        << <<"compression_to_pressure", d.outlet_pressure, d.efficiency>> >>)

\* (mutant) a pump that compresses the inlet_state object in place.
Pump_get_outlet_state_in_place(d, inlet_state) ==
    LET InPlace(r) == [r EXCEPT !.inlet = IF r.ok THEN r.st ELSE r.inlet]
    IN InPlace(Perform(Pump_request(d, inlet_state), inlet_state))

Pump_get_outlet_state(d, inlet_state) ==
    Perform(Pump_request(d, inlet_state), inlet_state)

\* What Pump.get_inlet_state asks of the backend, on the outlet_state object.
Pump_inlet_request(d, outlet_state, inlet_pressure) ==
    Request("outlet_state", outlet_state.fluid,
        << <<"expansion_to_pressure", inlet_pressure, d.efficiency>> >>)

\* What the class's get_outlet_state computes for the arguments.  Only
\* Turbine's takes an energy_balance; the others raise TypeError when given
\* one, before anything is recorded.
OutletOf(d, inlet_state, energy_balance) ==
    CASE d.cls = "GasCompressor" -> GasCompressor_get_outlet_state(d, inlet_state)
      [] d.cls = "HeatSourceDevice" -> HeatSourceDevice_get_outlet_state(d, inlet_state)
      [] d.cls = "Turbine" -> Turbine_get_outlet_state(d, inlet_state, energy_balance)
      [] d.cls = "Condenser" -> Condenser_get_outlet_state(d, inlet_state)
      [] d.cls = "Pump" -> Pump_get_outlet_state(d, inlet_state)

\* The outcome of a method call on a device object: what it returned or
\* raised, the object as it is left, and the inlet_state as it is left.
Outcome(ok, err, st, dev, inlet) ==
    [ok |-> ok, err |-> err, st |-> st, dev |-> dev, inlet |-> inlet]

\* (mutant) get_inlet_state that records the two states the other way round.
Pump_get_inlet_state_swapped(d, outlet_state, inlet_pressure) ==
    IF d.cls # "Pump"
    THEN Outcome(FALSE, "AttributeError", None, d, outlet_state)
    ELSE LET Recorded(r, d1) ==
                 IF r.ok
                 THEN Outcome(TRUE, "none", r.st, [d1 EXCEPT !.outlet_state = r.st], r.self)
                 ELSE Outcome(FALSE, r.err, None, d1, r.self)
         IN Recorded(Apply(outlet_state,
                           Pump_inlet_request(d, outlet_state, inlet_pressure).calls[1]),
                     [d EXCEPT !.inlet_state = outlet_state])

\* pump.get_inlet_state(outlet_state, inlet_pressure) on the device object d:
\* the outlet is recorded first, the inlet only when the backend returns; no
\* other class has the method.  (inlet, in the outcome, is the outlet_state
\* object as the call leaves it.)
Pump_get_inlet_state(d, outlet_state, inlet_pressure) ==
    IF d.cls # "Pump"
    THEN Outcome(FALSE, "AttributeError", None, d, outlet_state)
    ELSE LET Recorded(r, d1) ==
                 IF r.ok
                 THEN Outcome(TRUE, "none", r.st, [d1 EXCEPT !.inlet_state = r.st], r.self)
                 ELSE Outcome(FALSE, r.err, None, d1, r.self)
         IN Recorded(Apply(outlet_state,
                           Pump_inlet_request(d, outlet_state, inlet_pressure).calls[1]),
                     [d EXCEPT !.outlet_state = outlet_state])

\* (mutant) get_outlet_state that returns the outlet without recording it.
get_outlet_state_unrecorded(d, inlet_state, energy_balance) ==
    IF ~IsSingleInletOutletDevice(d)
    THEN Outcome(FALSE, "AttributeError", None, d, inlet_state)
    ELSE IF d.cls # "Turbine" /\ energy_balance # << >>
    THEN Outcome(FALSE, "TypeError", None, d, inlet_state)
    ELSE LET Recorded(r, d1) == Outcome(r.ok, r.err, r.st, d1, r.inlet)
         IN Recorded(OutletOf(d, inlet_state, energy_balance),
                     [d EXCEPT !.inlet_state = inlet_state])

\* device.get_outlet_state(inlet_state, energy_balance) on the device object
\* d: the base class records the inlet first; the outlet is recorded only
\* when the backend returns.
get_outlet_state(d, inlet_state, energy_balance) ==
    IF ~IsSingleInletOutletDevice(d)
    THEN Outcome(FALSE, "AttributeError", None, d, inlet_state)
    ELSE IF d.cls # "Turbine" /\ energy_balance # << >>
    THEN Outcome(FALSE, "TypeError", None, d, inlet_state)
    ELSE LET Recorded(r, d1) ==
                 IF r.ok
                 THEN Outcome(TRUE, "none", r.st, [d1 EXCEPT !.outlet_state = r.st],
                              r.inlet)
                 ELSE Outcome(FALSE, r.err, None, d1, r.inlet)
         IN Recorded(OutletOf(d, inlet_state, energy_balance),
                     [d EXCEPT !.inlet_state = inlet_state])

\* (mutant) energy_balance that raises only when both states are missing;
\* reading the enthalpy of a missing state then raises AttributeError.
energy_balance_and(d) ==
    IF ~IsSingleInletOutletDevice(d)
    THEN [ok |-> FALSE, err |-> "AttributeError", val |-> 0]
    ELSE IF d.inlet_state = None /\ d.outlet_state = None
    THEN [ok |-> FALSE, err |-> "ValueError: states must be defined", val |-> 0]
    ELSE IF d.inlet_state = None \/ d.outlet_state = None
    THEN [ok |-> FALSE, err |-> "AttributeError", val |-> 0]
    ELSE [ok |-> TRUE, err |-> "none", val |-> Abs(d.outlet_state.h - d.inlet_state.h)]

\* (mutant) energy_balance without the absolute value.
energy_balance_signed(d) ==
    IF ~IsSingleInletOutletDevice(d)
    THEN [ok |-> FALSE, err |-> "AttributeError", val |-> 0]
    ELSE IF d.inlet_state = None \/ d.outlet_state = None
    THEN [ok |-> FALSE, err |-> "ValueError: states must be defined", val |-> 0]
    ELSE [ok |-> TRUE, err |-> "none", val |-> d.outlet_state.h - d.inlet_state.h]

\* device.energy_balance
energy_balance(d) ==
    IF ~IsSingleInletOutletDevice(d)
    THEN [ok |-> FALSE, err |-> "AttributeError", val |-> 0]
    ELSE IF d.inlet_state = None \/ d.outlet_state = None
    THEN [ok |-> FALSE, err |-> "ValueError: states must be defined", val |-> 0]
    ELSE [ok |-> TRUE, err |-> "none", val |-> Abs(d.outlet_state.h - d.inlet_state.h)]

\* ------------------------------------------------------------------- cycle
VARIABLES
    initial_state,  \* ThermodynamicCycle.initial_state
    devices,        \* ThermodynamicCycle.devices: the device objects, by identity
    states,         \* ThermodynamicCycle.states
    heap,           \* the device objects: heap[id] is the object of identity id
    ret,            \* what the last call returned or raised
    lastOp,         \* history: the last call
    lastSolve,      \* history: how the last solve() ended: none, ok, failed
    everSolved,     \* history: some solve() has returned normally
    solveRun,       \* history: the solve() calls since the last add_device, to 2
    calls,          \* history: the get_outlet_state calls of the last solve()
    driver,         \* history: the last call made on a device or a helper directly
    workers         \* the cycles that worker threads solve at the same time

vars == <<initial_state, devices, states, heap, ret, lastOp, lastSolve,
          everSolved, solveRun, calls, driver, workers>>

\* The device object at position i (from 1) of the list.
DeviceAt(i) == heap[devices[i]]

\* What a call returned or raised.  A number is num/den; what is its Python
\* type, or inf, -inf, nan for a float64 division by zero.
Returned(what, num, den) == [kind |-> "returned", what |-> what, num |-> num, den |-> den]
Raised(e) == [kind |-> "raised", what |-> e, num |-> 0, den |-> 1]
NoCall == [kind |-> "none", what |-> "none", num |-> 0, den |-> 1]

\* A call made directly: the method, the device object's identity (0 for a
\* helper), the object before the call (<< >> for none), the inlet_state given
\* and as the call leaves it, the energy_balance argument, the request made of
\* the backend and the state returned (None when it raised).
DriverCall(method, dev, before, inlet_state, inlet_after, eb, request, returned) ==
    [method |-> method, dev |-> dev, before |-> before, inlet_state |-> inlet_state,
     inlet_after |-> inlet_after, energy_balance |-> eb, request |-> request,
     returned |-> returned]

NoRequest == Request("none", "None", << >>)

NoDriverCall == DriverCall("none", 0, << >>, None, None, << >>, NoRequest, None)

\* No worker threads.
NoWorkers == [cycle |-> << >>, overlapped |-> FALSE]

\* The initial states the model draws from: air at pressure 1, temperature 1.
InitialStates ==
    { [fluid |-> "Air", p |-> 1, t |-> 1, h |-> Cp("Air") * 1, x |-> -1] }

\* ThermodynamicCycle.__init__
Init ==
    /\ initial_state \in InitialStates
    /\ devices = << >>
    /\ states = << >>
    /\ heap = << >>
    /\ ret = NoCall
    /\ lastOp = "init"
    /\ lastSolve = "none"
    /\ everSolved = FALSE
    /\ solveRun = 0
    /\ calls = << >>
    /\ driver = NoDriverCall
    /\ workers = NoWorkers

\* add_device(device), the device a newly constructed object.
add_device_new(d) ==
    /\ Len(devices) < MaxDevices
    /\ heap' = Append(heap, d)
    /\ devices' = Append(devices, Len(heap) + 1)
    /\ ret' = Returned("None", 0, 1)
    /\ lastOp' = "add_device"
    /\ solveRun' = 0
    /\ UNCHANGED <<initial_state, states, lastSolve, everSolved, calls, driver, workers>>

\* add_device(device), the device an object that is in the list already.
add_device_again(id) ==
    /\ Len(devices) < MaxDevices
    /\ devices' = Append(devices, id)
    /\ ret' = Returned("None", 0, 1)
    /\ lastOp' = "add_device"
    /\ solveRun' = 0
    /\ UNCHANGED <<initial_state, states, heap, lastSolve, everSolved, calls,
                   driver, workers>>

\* (mutant) a pass that gives every device the first state of the trajectory.
SolveStepOn_from_first(devs, hp, sts, i) ==
    LET id == devs[i]
        inlet_state == sts[1]
        Step(hp1, r, sts1) ==
            [ok |-> r.ok, err |-> r.err,
             heap |-> [hp1 EXCEPT ![id] = r.dev],
             states |-> IF r.ok THEN Append(sts1, r.st) ELSE sts1,
             call |-> [pos |-> i, dev |-> id, inlet |-> inlet_state, ok |-> r.ok,
                       exercised |-> IsSingleInletOutletDevice(hp1[id]),
                       last |-> sts[Len(sts)], outlet |-> r.st]]
        Called(hp1, r) == Step(hp1, r, [sts EXCEPT ![1] = r.inlet])
        Set(hp1) == Called(hp1, get_outlet_state(hp1[id], inlet_state, << >>))
    IN Set([hp EXCEPT ![id].inlet_state = inlet_state])

\* One pass of solve()'s loop, for position i (from 1) of the device list
\* devs (identities), on the objects hp and the trajectory sts: the device's inlet_state is set, get_outlet_state is
\* called and its result appended.  The inlet_state is the object at sts[i],
\* so sts[i] is that object as the call leaves it.
SolveStepOn(devs, hp, sts, i) ==
    LET id == devs[i]
        inlet_state == sts[i]
        Step(hp1, r, sts1) ==
            [ok |-> r.ok, err |-> r.err,
             heap |-> [hp1 EXCEPT ![id] = r.dev],
             states |-> IF r.ok THEN Append(sts1, r.st) ELSE sts1,
             call |-> [pos |-> i, dev |-> id, inlet |-> inlet_state, ok |-> r.ok,
                       exercised |-> IsSingleInletOutletDevice(hp1[id]),
                       last |-> sts[Len(sts)], outlet |-> r.st]]
        Called(hp1, r) == Step(hp1, r, [sts EXCEPT ![i] = r.inlet])
        Set(hp1) == Called(hp1, get_outlet_state(hp1[id], inlet_state, << >>))
    IN Set([hp EXCEPT ![id].inlet_state = inlet_state])


\* The pass for position i of this cycle's list.
SolveStep(hp, sts, i) == SolveStepOn(devices, hp, sts, i)

\* (mutant) a loop that takes the inlet for the outlet of a device that
\* raised, and goes on.
RECURSIVE SolveLoop_swallows(_, _, _, _)
SolveLoop_swallows(hp, sts, log, i) ==
    IF i > Len(devices)
    THEN [err |-> "none", heap |-> hp, states |-> sts, calls |-> log]
    ELSE LET s == SolveStep(hp, sts, i)
         IN SolveLoop_swallows(s.heap,
                IF s.ok THEN s.states ELSE Append(sts, sts[i]),
                Append(log, s.call), i + 1)

\* solve()'s loop from position i on: it ends at the first device that raises.
RECURSIVE SolveLoopOn(_, _, _, _, _)
SolveLoopOn(devs, hp, sts, log, i) ==
    IF i > Len(devs)
    THEN [err |-> "none", heap |-> hp, states |-> sts, calls |-> log]
    ELSE LET After(s) ==
                 IF s.ok
                 THEN SolveLoopOn(devs, s.heap, s.states, Append(log, s.call), i + 1)
                 ELSE [err |-> s.err, heap |-> s.heap, states |-> s.states,
                       calls |-> Append(log, s.call)]
         IN After(SolveStepOn(devs, hp, sts, i))

\* The loop of this cycle.
SolveLoop(hp, sts, log, i) == SolveLoopOn(devices, hp, sts, log, i)

\* What an exception that leaves solve() says of the device that failed.
\* solve() has no handler, so the exception is the one raised below it: the
\* backend's, made from the numbers it was given, or Python's AttributeError,
\* whose message has the object's class.
ErrorMentions(e) == IF e = "AttributeError" THEN {"class"} ELSE {}

\* (mutant) solve() that keeps the trajectory of an earlier solve().
SolveResult_keeps_states ==
    SolveLoop(heap, IF states = << >> THEN <<initial_state>> ELSE states, << >>, 1)

\* solve(): the trajectory starts with the initial_state object itself.
SolveResult == SolveLoop(heap, <<initial_state>>, << >>, 1)

solve ==
    LET r == SolveResult
    IN /\ heap' = r.heap
       /\ states' = r.states
       /\ calls' = r.calls
       /\ ret' = IF r.err = "none" THEN Returned("None", 0, 1) ELSE Raised(r.err)
       /\ lastOp' = "solve"
       /\ lastSolve' = IF r.err = "none" THEN "ok" ELSE "failed"
       /\ everSolved' = (everSolved \/ r.err = "none")
       /\ solveRun' = IF solveRun < 2 THEN solveRun + 1 ELSE 2
       /\ initial_state' = r.states[1]
       /\ UNCHANGED <<devices, driver, workers>>

\* The number of binary digits of a natural number.
RECURSIVE BitLength(_)
BitLength(x) == IF x = 0 THEN 0 ELSE 1 + BitLength(x \div 2)

\* 2 to the power n.
RECURSIVE Pow2(_)
Pow2(n) == IF n = 0 THEN 1 ELSE 2 * Pow2(n - 1)

\* The float nearest to the non-negative number x, ties to the even
\* significand: a float keeps MantissaBits significant binary digits (53 in
\* a float64; the model's floats are shorter, and every number below
\* 2^MantissaBits is one of them).
FloatRound(x) ==
    IF BitLength(x) <= MantissaBits THEN x
    ELSE LET unit == Pow2(BitLength(x) - MantissaBits)
             q == x \div unit
             r == x % unit
         IN IF 2 * r > unit \/ (2 * r = unit /\ q % 2 = 1)
            THEN (q + 1) * unit
            ELSE q * unit

\* a + b of two non-negative floats (or of the int 0 and a float).
FloatAdd(a, b) == FloatRound(a + b)

\* Python's sum over the generator, from position i on with the running
\* total acc: the devices are taken in list order, one whose device_type is
\* not the tag is skipped, the first whose energy_balance raises ends the
\* sum, and each other one is added to the total, a float addition.
RECURSIVE SumEnergyBalanceFrom(_, _, _, _, _)
SumEnergyBalanceFrom(devs, hp, tag, i, acc) ==
    IF i > Len(devs)
    THEN acc
    ELSE IF device_type(hp[devs[i]]) # tag
    THEN SumEnergyBalanceFrom(devs, hp, tag, i + 1, acc)
    ELSE LET Add(e) ==
                 IF ~e.ok THEN [ok |-> FALSE, err |-> e.err, val |-> 0, n |-> 0]
                 ELSE SumEnergyBalanceFrom(devs, hp, tag, i + 1,
                          [ok |-> TRUE, err |-> "none",
                           val |-> FloatAdd(acc.val, e.val), n |-> acc.n + 1])
         IN Add(energy_balance(hp[devs[i]]))

\* (mutant) a sum that takes the first matching device only.
SumEnergyBalanceOn_first_only(devs, hp, tag, i) ==
    LET m == {j \in i..Len(devs) : device_type(hp[devs[j]]) = tag}
    IN IF m = {} THEN [ok |-> TRUE, err |-> "none", val |-> 0, n |-> 0]
       ELSE LET First(e) ==
                    IF ~e.ok THEN [ok |-> FALSE, err |-> e.err, val |-> 0, n |-> 0]
                    ELSE [ok |-> TRUE, err |-> "none", val |-> e.val, n |-> Cardinality(m)]
            IN First(energy_balance(hp[devs[CHOOSE j \in m : \A k \in m : j <= k]]))

\* np.sum(device.energy_balance for device in self.devices
\*        if device.device_type == tag), from position i on: the generator
\* is summed with Python's sum, from the int 0, and n counts the matching
\* devices. (devs is the list, of identities of the objects hp.)
SumEnergyBalanceOn(devs, hp, tag, i) ==
    SumEnergyBalanceFrom(devs, hp, tag, i, [ok |-> TRUE, err |-> "none", val |-> 0, n |-> 0])

\* The sum over this cycle's devices.
SumEnergyBalance(tag, i) == SumEnergyBalanceOn(devices, heap, tag, i)

\* BraytonCycle.turbine_work
turbine_work == SumEnergyBalance("turbine", 1)

\* (mutant) compressor_work that counts the pumps too.
compressor_work_with_pumps ==
    LET c == SumEnergyBalance("compressor", 1)
        q == SumEnergyBalance("pump", 1)
    IN IF ~c.ok THEN c ELSE IF ~q.ok THEN q
       ELSE [ok |-> TRUE, err |-> "none", val |-> c.val + q.val, n |-> c.n + q.n]

\* BraytonCycle.compressor_work
compressor_work == SumEnergyBalance("compressor", 1)

\* BraytonCycle.heat_in
heat_in == SumEnergyBalance("combustion_chamber", 1)

\* The value of a property read: an int 0 when nothing was summed, else a
\* numpy float64.
PropertyRead(a) ==
    IF ~a.ok THEN Raised(a.err)
    ELSE Returned(IF a.n = 0 THEN "int" ELSE "float64", a.val, 1)

\* num / den in Python: int / int raises on a zero divisor; with a float64
\* on either side a zero divisor gives inf, -inf or nan (and a warning).
TrueDivide(num, numIsInt, den, denIsInt) ==
    IF den # 0 THEN Returned(IF numIsInt /\ denIsInt THEN "float" ELSE "float64", num, den)
    ELSE IF numIsInt /\ denIsInt THEN Raised("ZeroDivisionError")
    ELSE IF num > 0 THEN Returned("inf", 0, 1)
    ELSE IF num < 0 THEN Returned("-inf", 0, 1)
    ELSE Returned("nan", 0, 1)

\* (mutant) the check accepts a trajectory of one state.
IsNotSolved_one_state == Len(states) < 1

\* ThermodynamicCycle.get_efficiency: the check of the base class.
IsNotSolved == Len(states) < 2

\* The quotient BraytonCycle.get_efficiency returns, from the three sums.
Efficiency(tw, cw, hi) ==
    TrueDivide(tw.val - cw.val, tw.n = 0 /\ cw.n = 0, hi.val, hi.n = 0)

\* BraytonCycle.get_efficiency()
EfficiencyResult ==
    IF IsNotSolved THEN Raised("ValueError: cycle must be solved")
    ELSE IF ~turbine_work.ok THEN Raised(turbine_work.err)
    ELSE IF ~compressor_work.ok THEN Raised(compressor_work.err)
    ELSE IF ~heat_in.ok THEN Raised(heat_in.err)
    ELSE Efficiency(turbine_work, compressor_work, heat_in)

Read(op, r) ==
    /\ ret' = r
    /\ lastOp' = op
    /\ UNCHANGED <<initial_state, devices, states, heap, lastSolve, everSolved,
                   solveRun, calls, driver, workers>>

get_efficiency == Read("get_efficiency", EfficiencyResult)

read_turbine_work == Read("turbine_work", PropertyRead(turbine_work))

read_compressor_work == Read("compressor_work", PropertyRead(compressor_work))

read_heat_in == Read("heat_in", PropertyRead(heat_in))

Next ==
    \/ \E d \in Catalogue : add_device_new(d)
    \/ \E id \in 1..Len(heap) : add_device_again(id)
    \/ solve
    \/ get_efficiency
    \/ read_turbine_work
    \/ read_compressor_work
    \/ read_heat_in

Spec == Init /\ [][Next]_vars

\* ----------------------------------------------------- process helpers
\* thermosys.processes: the functions that make the backend calls on the
\* inlet_state they are given.
compress_to_request(inlet_state, efficiency, compression_ratio) ==
    Request("inlet_state", inlet_state.fluid,
        << <<"with_state", inlet_state.p, inlet_state.t>>,
           <<"compression_to_pressure", inlet_state.p * compression_ratio,
             efficiency>> >>)

heat_to_temperature_request(inlet_state, outlet_temperature) ==
    Request("inlet_state", inlet_state.fluid,
        << <<"with_state", inlet_state.p, outlet_temperature>> >>)

turbine_to_pressure_request(inlet_state, efficiency, outlet_pressure) ==
    Request("inlet_state", inlet_state.fluid,
        << <<"expansion_to_pressure", outlet_pressure, efficiency>> >>)

\* The pressure drop is |p - p * (outlet_enthalpy / inlet enthalpy)|, here
\* rounded down to a whole pressure.
\* (balance is the energy_balance argument.)
turbine_to_enthalpy_request(inlet_state, efficiency, balance) ==
    LET outlet_enthalpy == inlet_state.h - OverEfficiency(balance, efficiency)
        pressure_drop ==
            Abs(inlet_state.p - (inlet_state.p * outlet_enthalpy) \div inlet_state.h)
    IN Request("inlet_state", inlet_state.fluid,
           << <<"cooling_to_enthalpy", outlet_enthalpy, pressure_drop>> >>)

condense_to_pressure_request(inlet_state, outlet_pressure) ==
    Request("inlet_state", inlet_state.fluid,
        << <<"dew_point_at_pressure", outlet_pressure, 0>> >>)

pump_to_pressure_request(inlet_state, efficiency, outlet_pressure) ==
    Request("inlet_state", inlet_state.fluid,
        << <<"compression_to_pressure", outlet_pressure, efficiency>> >>)

\* The helper that does what the device d does, called with d's parameters.
ProcessRequest(d, inlet_state, eb) ==
    CASE d.cls = "GasCompressor" ->
            compress_to_request(inlet_state, d.efficiency, d.compression_ratio)
      [] d.cls = "HeatSourceDevice" ->
            heat_to_temperature_request(inlet_state, d.outlet_temperature)
      [] d.cls = "Turbine" /\ eb = << >> ->
            turbine_to_pressure_request(inlet_state, d.efficiency, d.outlet_pressure)
      [] d.cls = "Turbine" /\ eb # << >> ->
            turbine_to_enthalpy_request(inlet_state, d.efficiency, eb[1])
      [] d.cls = "Condenser" -> condense_to_pressure_request(inlet_state, d.pressure)
      [] d.cls = "Pump" ->
            pump_to_pressure_request(inlet_state, d.efficiency, d.outlet_pressure)

\* thermosys.services.energy.energy_balance(state_1, state_2)
services_energy_balance(state_1, state_2) == Abs(state_2.h - state_1.h)

\* ------------------------------------------------------------------ driver
\* A driver script (src/script.py) that constructs one device and calls it,
\* the helpers and services.energy_balance directly.

\* The constructor calls the driver draws from.
DriverCatalogue ==
    { NewDevice("GasCompressor", e, "None", r, 0, 0, 0, 0) : e \in {50, 100}, r \in {2, 3} }
    \cup { NewDevice("HeatSourceDevice", 0, "Air", 0, 0, t, 0, 0) : t \in {1, 3} }
    \cup { NewDevice("Turbine", e, "Air", 0, q, 0, 0, 0) : e \in {50, 100}, q \in {1, 3} }
    \cup { NewDevice("Condenser", 0, "Water", 0, 0, 0, q, 0) : q \in {1, 2} }
    \cup { NewDevice("Pump", e, "None", 0, q, 0, 0, 0) : e \in {50, 100}, q \in {2, 3} }
    \cup { NewDevice("Deaerator", 0, "None", 0, 0, 0, 0, 2) }

\* The fluid states the driver has at hand.
DriverStates ==
    { with_state(f, pt[1], pt[2]).st :
          f \in {"Air", "Water"}, pt \in {<<1, 2>>, <<2, 3>>} }

\* The energy_balance arguments the driver passes: none, or a number.
EnergyBalances == { << >>, <<1>>, <<2>> }

\* Turbine.__init__ called with the keywords of d, and energy_balance=eb[1]
\* when eb is not empty: the signature has no such parameter.
Turbine_init(d, eb) ==
    IF eb # << >> THEN [ok |-> FALSE, err |-> "TypeError", dev |-> << >>]
    ELSE [ok |-> TRUE, err |-> "none", dev |-> <<d>>]

\* The driver constructs a device.
new_device(d, eb) ==
    /\ heap = << >>
    /\ d.cls # "Turbine" => eb = << >>
    /\ LET r == IF d.cls = "Turbine" THEN Turbine_init(d, eb)
                ELSE [ok |-> TRUE, err |-> "none", dev |-> <<d>>]
       IN /\ heap' = r.dev
          /\ ret' = IF r.ok THEN Returned(d.cls, 0, 1) ELSE Raised(r.err)
          /\ driver' = DriverCall("__init__", Len(r.dev), << >>, None, None, eb,
                                  NoRequest, None)
    /\ lastOp' = "__init__"
    /\ UNCHANGED <<initial_state, devices, states, lastSolve, everSolved, solveRun,
                   calls, workers>>

\* The request get_outlet_state makes, when it gets as far as making one.
DeviceRequest(d, inlet_state, eb) ==
    CASE d.cls = "GasCompressor" /\ eb = << >> -> GasCompressor_request(d, inlet_state)
      [] d.cls = "HeatSourceDevice" /\ eb = << >> -> HeatSourceDevice_request(d, inlet_state)
      [] d.cls = "Turbine" -> Turbine_request(d, inlet_state, eb)
      [] d.cls = "Condenser" /\ eb = << >> -> Condenser_request(d, inlet_state)
      [] d.cls = "Pump" /\ eb = << >> -> Pump_request(d, inlet_state)
      [] OTHER -> NoRequest

\* The driver calls heap[id].get_outlet_state(s, energy_balance).
call_get_outlet_state(id, s, eb) ==
    LET r == get_outlet_state(heap[id], s, eb)
    IN /\ heap' = [heap EXCEPT ![id] = r.dev]
       /\ ret' = IF r.ok THEN Returned("Fluid", 0, 1) ELSE Raised(r.err)
       /\ driver' = DriverCall("get_outlet_state", id, <<heap[id]>>, s, r.inlet, eb,
                               DeviceRequest(heap[id], s, eb), r.st)
       /\ lastOp' = "get_outlet_state"
       /\ UNCHANGED <<initial_state, devices, states, lastSolve, everSolved,
                      solveRun, calls, workers>>

\* The inlet pressures the driver asks a pump's inlet state for.
InletPressures == {1, 2}

\* The driver calls heap[id].get_inlet_state(o, inlet_pressure).
call_get_inlet_state(id, o, inlet_pressure) ==
    LET r == Pump_get_inlet_state(heap[id], o, inlet_pressure)
    IN /\ heap' = [heap EXCEPT ![id] = r.dev]
       /\ ret' = IF r.ok THEN Returned("Fluid", 0, 1) ELSE Raised(r.err)
       /\ driver' = DriverCall("get_inlet_state", id, <<heap[id]>>, o, r.inlet, << >>,
                               IF heap[id].cls = "Pump"
                               THEN Pump_inlet_request(heap[id], o, inlet_pressure)
                               ELSE NoRequest,
                               r.st)
       /\ lastOp' = "get_inlet_state"
       /\ UNCHANGED <<initial_state, devices, states, lastSolve, everSolved,
                      solveRun, calls, workers>>

\* The driver reads heap[id].energy_balance.
read_energy_balance(id) ==
    LET e == energy_balance(heap[id])
    IN /\ ret' = IF e.ok THEN Returned("float", e.val, 1) ELSE Raised(e.err)
       /\ driver' = DriverCall("energy_balance", id, <<heap[id]>>, None, None, << >>,
                               NoRequest, None)
       /\ lastOp' = "energy_balance"
       /\ UNCHANGED <<initial_state, devices, states, heap, lastSolve, everSolved,
                      solveRun, calls, workers>>

\* The driver calls the helper of the kind of the device heap[id], with the
\* device's parameters, on s.
call_process(id, s, eb) ==
    /\ heap[id].cls # "Deaerator"
    /\ heap[id].cls # "Turbine" => eb = << >>
    /\ LET q == ProcessRequest(heap[id], s, eb)
           r == Perform(q, s)
       IN /\ ret' = IF r.ok THEN Returned("Fluid", 0, 1) ELSE Raised(r.err)
          /\ driver' = DriverCall("process", id, <<heap[id]>>, s, r.inlet, eb, q, r.st)
    /\ lastOp' = "process"
    /\ UNCHANGED <<initial_state, devices, states, heap, lastSolve, everSolved,
                   solveRun, calls, workers>>

\* The driver calls services.energy.energy_balance(s1, s2).
call_energy_balance(s1, s2) ==
    /\ ret' = Returned("float", services_energy_balance(s1, s2), 1)
    /\ driver' = DriverCall("services.energy_balance", 0, << >>, s1, s2, << >>,
                            NoRequest, None)
    /\ lastOp' = "services.energy_balance"
    /\ UNCHANGED <<initial_state, devices, states, heap, lastSolve, everSolved,
                   solveRun, calls, workers>>

DriverNext ==
    \/ \E d \in DriverCatalogue, eb \in EnergyBalances : new_device(d, eb)
    \/ \E id \in 1..Len(heap), s \in DriverStates, eb \in EnergyBalances :
          call_get_outlet_state(id, s, eb)
    \/ \E id \in 1..Len(heap), o \in DriverStates, p \in InletPressures :
          call_get_inlet_state(id, o, p)
    \/ \E id \in 1..Len(heap) : read_energy_balance(id)
    \/ \E id \in 1..Len(heap), s \in DriverStates, eb \in EnergyBalances :
          call_process(id, s, eb)
    \/ \E s1, s2 \in DriverStates : call_energy_balance(s1, s2)

DriverSpec == Init /\ [][DriverNext]_vars

\* ----------------------------------------------------- concurrent solves
\* Two cycles, each with its own Device objects, each solved by a worker
\* thread of its own (spec.md, Concurrency: Monte Carlo trials).  A thread
\* runs solve() (cycles.py:65-73); the threads' passes through the loop
\* interleave in any order.

\* The longest device list of a worker's cycle.
MaxChain == 2

\* The constructor calls a trial draws its devices from.
WorkerCatalogue ==
    { d \in Catalogue : d.cls \in {"GasCompressor", "HeatSourceDevice", "Turbine"} }

\* The device lists of a trial.
Chains == UNION { [1..n -> WorkerCatalogue] : n \in 1..MaxChain }

\* The initial states of the trials.
WorkerInitialStates == InitialStates \cup { with_state("Air", 2, 3).st }

\* (mutant) a cycle that is given the first objects constructed, which are
\* the devices of the first cycle.
NewCycle_of_first_objects(initial, devs) ==
    [initial_state |-> initial, devices |-> [i \in 1..Len(devs) |-> i],
     states |-> << >>, pc |-> 0, err |-> "none"]

\* A cycle (ThermodynamicCycle.__init__, then add_device for each of devs)
\* and the place of the thread that solves it: pc is 0 before solve() is
\* entered, then the position it is to exercise next; err is the exception
\* that ended it.
NewCycle(initial, devs) ==
    [initial_state |-> initial, devices |-> devs, states |-> << >>, pc |-> 0,
     err |-> "none"]

Running(c) == c.pc >= 1 /\ c.pc <= Len(c.devices) /\ c.err = "none"

Finished(c) == c.pc >= 1 /\ ~Running(c)

ConcurrentInit ==
    /\ \E ds1 \in Chains, ds2 \in Chains, s1 \in WorkerInitialStates,
          s2 \in WorkerInitialStates :
          /\ heap = ds1 \o ds2
          /\ workers =
               [cycle |-> << NewCycle(s1, [i \in 1..Len(ds1) |-> i]),
                             NewCycle(s2, [i \in 1..Len(ds2) |-> Len(ds1) + i]) >>,
                overlapped |-> FALSE]
    /\ initial_state \in InitialStates
    /\ devices = << >>
    /\ states = << >>
    /\ ret = NoCall
    /\ lastOp = "init"
    /\ lastSolve = "none"
    /\ everSolved = FALSE
    /\ solveRun = 0
    /\ calls = << >>
    /\ driver = NoDriverCall

\* history: worker w takes a step while the other worker is inside solve().
Overlaps(w) ==
    workers.overlapped \/ \E v \in 1..Len(workers.cycle) : v # w /\ Running(workers.cycle[v])

\* Worker w enters solve(): self.states = [self.initial_state].
worker_begin(w) ==
    /\ workers.cycle[w].pc = 0
    /\ workers' = [workers EXCEPT !.cycle[w].states = <<workers.cycle[w].initial_state>>,
                                  !.cycle[w].pc = 1,
                                  !.overlapped = Overlaps(w)]
    /\ UNCHANGED <<initial_state, devices, states, heap, ret, lastOp, lastSolve,
                   everSolved, solveRun, calls, driver>>

\* Worker w makes one pass of the loop of solve().
worker_step(w) ==
    /\ Running(workers.cycle[w])
    /\ LET c == workers.cycle[w]
           Stepped(s) ==
               /\ heap' = s.heap
               /\ workers' = [workers EXCEPT !.cycle[w].states = s.states,
                                             !.cycle[w].pc = IF s.ok THEN c.pc + 1 ELSE c.pc,
                                             !.cycle[w].err = s.err,
                                             !.overlapped = Overlaps(w)]
       IN Stepped(SolveStepOn(c.devices, heap, c.states, c.pc))
    /\ UNCHANGED <<initial_state, devices, states, ret, lastOp, lastSolve,
                   everSolved, solveRun, calls, driver>>

ConcurrentNext ==
    \/ \E w \in 1..Len(workers.cycle) : worker_begin(w)
    \/ \E w \in 1..Len(workers.cycle) : worker_step(w)

ConcurrentSpec == ConcurrentInit /\ [][ConcurrentNext]_vars

\* ------------------------------------------------------- Brayton chain
\* The driver of src/example.py: a BraytonCycle whose devices are a
\* compressor, a heat source, a turbine, a second heat source and a second
\* turbine, in this order.
BraytonChain ==
    <<"GasCompressor", "HeatSourceDevice", "Turbine", "HeatSourceDevice", "Turbine">>

\* The constructor calls of the chain's devices.
BraytonCatalogue ==
    { NewDevice("GasCompressor", e, "None", r, 0, 0, 0, 0) : e \in {50, 100}, r \in {2, 4} }
    \cup { NewDevice("HeatSourceDevice", 0, "Air", 0, 0, t, 0, 0) : t \in {5, 6} }
    \cup { NewDevice("Turbine", e, "Air", 0, q, 0, 0, 0) : e \in {50, 100}, q \in {1, 2} }

\* add_device(device) for the next device of the chain.
brayton_add_device(d) ==
    /\ Len(devices) < Len(BraytonChain)
    /\ d.cls = BraytonChain[Len(devices) + 1]
    /\ heap' = Append(heap, d)
    /\ devices' = Append(devices, Len(heap) + 1)
    /\ ret' = Returned("None", 0, 1)
    /\ lastOp' = "add_device"
    /\ solveRun' = 0
    /\ UNCHANGED <<initial_state, states, lastSolve, everSolved, calls, driver, workers>>

\* example_cogeneration.main on the six states of the gas cycle: the turbine
\* and compressor specific works, from services.energy_balance.
gas_turbine_specific_work(gas_states) ==
    services_energy_balance(gas_states[4], gas_states[3])
        + services_energy_balance(gas_states[6], gas_states[5])

gas_compressor_specific_work(gas_states) ==
    services_energy_balance(gas_states[1], gas_states[2])

\* gas_bwr = gas_turbine_specific_work / gas_compressor_specific_work
gas_bwr(gas_states) ==
    TrueDivide(gas_turbine_specific_work(gas_states), FALSE,
               gas_compressor_specific_work(gas_states), FALSE)

\* The driver computes the back-work ratio from the six states.
compute_gas_bwr ==
    /\ Len(states) = Len(BraytonChain) + 1
    /\ Read("gas_bwr", gas_bwr(states))

BraytonNext ==
    \/ \E d \in BraytonCatalogue : brayton_add_device(d)
    \/ solve
    \/ get_efficiency
    \/ read_turbine_work
    \/ read_compressor_work
    \/ read_heat_in
    \/ compute_gas_bwr

BraytonSpec == Init /\ [][BraytonNext]_vars

\* ------------------------------------------------- reordered device lists
\* A device on which a get_outlet_state call recorded an inlet state of
\* enthalpy h_in and an outlet state of enthalpy h_out.
RecordedDevice(d, h_in, h_out) ==
    [d EXCEPT !.inlet_state = [fluid |-> "Air", p |-> 1, t |-> 1, h |-> h_in, x |-> -1],
              !.outlet_state = [fluid |-> "Air", p |-> 1, t |-> 1, h |-> h_out, x |-> -1]]

\* The devices the aggregates are read over: of the three classes of the
\* Brayton chain, the compressors and turbines with an energy balance of 1
\* or of 2^MantissaBits.
AggregateCatalogue ==
    { RecordedDevice(d, 0, h) :
        d \in { NewDevice("GasCompressor", 100, "None", 2, 0, 0, 0, 0),
                NewDevice("Turbine", 100, "Air", 0, 1, 0, 0, 0) },
        h \in {1, Pow2(MantissaBits)} }
    \cup { RecordedDevice(NewDevice("HeatSourceDevice", 0, "Air", 0, 0, 5, 0, 0), 0, 1) }

\* A cycle whose device list was assigned, of devices that have their states.
AggregateInit ==
    /\ initial_state \in InitialStates
    /\ \E k \in 1..MaxDevices :
          /\ heap \in [1..k -> AggregateCatalogue]
          /\ devices = [i \in 1..k |-> i]
    /\ states = << >>
    /\ ret = NoCall
    /\ lastOp = "init"
    /\ lastSolve = "none"
    /\ everSolved = FALSE
    /\ solveRun = 0
    /\ calls = << >>
    /\ driver = NoDriverCall
    /\ workers = NoWorkers

\* The orders a list of k entries can be put in.
Orders(k) == Permutations(1..k)

\* The list devs in the order f.
Reordered(devs, f) == [i \in 1..Len(devs) |-> devs[f[i]]]

\* The order that exchanges the entries i and i+1.
Exchange(k, i) ==
    [j \in 1..k |-> IF j = i THEN i + 1 ELSE IF j = i + 1 THEN i ELSE j]

\* cycle.devices = the same devices, two neighbours exchanged (any order of
\* the list is reached by such assignments)
assign_devices(f) ==
    /\ devices' = Reordered(devices, f)
    /\ ret' = Returned("None", 0, 1)
    /\ lastOp' = "assign_devices"
    /\ UNCHANGED <<initial_state, states, heap, lastSolve, everSolved, solveRun,
                   calls, driver, workers>>

AggregateNext ==
    \/ \E i \in 1..(Len(devices) - 1) : assign_devices(Exchange(Len(devices), i))
    \/ read_turbine_work
    \/ read_compressor_work
    \/ read_heat_in

AggregateSpec == AggregateInit /\ [][AggregateNext]_vars

\* ------------------------------------------------------------------ claims
\* The last solve() returned normally and no device was added after it.
Solved == lastSolve = "ok" /\ solveRun >= 1

\* No device object is at two positions of the list.
NoSharedDevice ==
    \A i, j \in 1..Len(devices) : devices[i] = devices[j] => i = j

\* The trajectory has one entry more than the list has devices, starts with
\* initial_state, and entry i+1 is the outlet_state recorded on device i.
TrajectoryMatchesDevices ==
    /\ Len(states) = Len(devices) + 1
    /\ states[1] = initial_state
    /\ \A i \in 1..Len(devices) : states[i + 1] = DeviceAt(i).outlet_state

\* C1 as stated: after a successful solve() of any device list built with
\* add_device, states has N+1 entries, states[0] is initial_state and
\* states[i+1] is the outlet_state recorded on devices[i].
C1_AnyList == Solved => TrajectoryMatchesDevices

\* C1 amended: the same, for a device list in which no device object occurs
\* twice.
C1_TrajectoryOfDistinctDevices ==
    (Solved /\ NoSharedDevice) => TrajectoryMatchesDevices

C1_Witness ==
    /\ lastOp = "solve" /\ Solved /\ NoSharedDevice
    /\ Len(devices) = MaxDevices
    /\ \A i \in 1..Len(devices) : states[i + 1] # states[i]

\* C2: a solve() called when solve() was already called on the same
\* initial_state and device list leaves the trajectory, every device's
\* recorded states, its outcome and every aggregate as they were.
C2_SolveIdempotent ==
    [][(solveRun >= 1 /\ lastOp' = "solve") =>
          /\ states' = states
          /\ heap' = heap
          /\ lastSolve' = lastSolve
          /\ calls' = calls
          /\ turbine_work' = turbine_work
          /\ compressor_work' = compressor_work
          /\ heat_in' = heat_in
          /\ EfficiencyResult' = EfficiencyResult]_vars

C2_Witness ==
    /\ lastOp = "solve" /\ solveRun = 2 /\ lastSolve = "ok"
    /\ Len(states) >= 3

\* C3 as stated: after add_device on a solved cycle, get_efficiency() fails
\* until solve() is called again.
C3_AddDeviceInvalidates ==
    (lastSolve = "ok" /\ solveRun = 0 /\ lastOp = "get_efficiency") =>
        ret.kind = "raised"

\* C4: get_efficiency() raises the not-solved error whenever the trajectory
\* holds fewer than 2 states.
C4_NotSolvedError ==
    (lastOp = "get_efficiency" /\ Len(states) < 2) =>
        ret = Raised("ValueError: cycle must be solved")

\* get_efficiency() on a cycle with no device, after solve().
C4_Witness ==
    /\ lastOp = "get_efficiency" /\ lastSolve = "ok" /\ solveRun >= 1
    /\ devices = << >> /\ states = <<initial_state>>
    /\ ret.kind = "raised"

\* The device at position i has an unrecorded inlet or outlet state.
Unrecorded(i) ==
    DeviceAt(i).inlet_state = None \/ DeviceAt(i).outlet_state = None

HasDeviceOfType(tag) ==
    \E i \in 1..Len(devices) : device_type(DeviceAt(i)) = tag

HasUnrecordedOfType(tag) ==
    \E i \in 1..Len(devices) : device_type(DeviceAt(i)) = tag /\ Unrecorded(i)

Aggregates == {"turbine_work", "compressor_work", "heat_in", "get_efficiency"}

SumReadOutcome(tag) ==
    IF HasUnrecordedOfType(tag)
    THEN ret = Raised("ValueError: states must be defined")
    ELSE /\ ret.kind = "returned"
         /\ ~HasDeviceOfType(tag) => ret = Returned("int", 0, 1)

C6_FailedSolveIsUnsolved ==
    (lastSolve = "failed" /\ lastOp = "get_efficiency") => ret.kind = "raised"

\* C7: when the backend cannot resolve the outlet of the device at position
\* k during solve(), solve() raises that error, appends no state for the
\* device and calls no device after position k.
C7_BackendErrorPropagates ==
    lastOp = "solve" =>
        \A j \in 1..Len(calls) :
            /\ calls[j].pos = j /\ calls[j].dev = devices[j]
            /\ (/\ IsSingleInletOutletDevice(DeviceAt(j))
                /\ ~OutletOf(DeviceAt(j), calls[j].inlet, << >>).ok) =>
                   /\ ret = Raised("BackendError")
                   /\ lastSolve = "failed"
                   /\ Len(calls) = j
                   /\ Len(states) = j

\* A solve() that failed in the backend before the last device of the list.
C7_Witness ==
    /\ lastOp = "solve" /\ ret = Raised("BackendError")
    /\ Len(calls) >= 2 /\ Len(calls) < Len(devices)

\* |outlet enthalpy - inlet enthalpy| of the device at position i.
EnthalpyChangeAt(i) ==
    Abs(DeviceAt(i).outlet_state.h - DeviceAt(i).inlet_state.h)

PositionsOfType(tags) ==
    {i \in 1..Len(devices) : device_type(DeviceAt(i)) \in tags}

RECURSIVE SumOver(_)
SumOver(S) ==
    IF S = {} THEN 0
    ELSE LET i == CHOOSE j \in S : TRUE
         IN EnthalpyChangeAt(i) + SumOver(S \ {i})

\* The heat-input category: heat sources and combustion chambers.
HeatInputTypes == {"heat_source", "combustion_chamber"}

\* C8 as stated: on a solved cycle heat_in is the sum of energy_balance over
\* the devices of the heat-input category, heat sources included.
C8_HeatInCountsHeatSources ==
    (Solved /\ lastOp = "heat_in") =>
        /\ ret.kind = "returned"
        /\ ret.num = SumOver(PositionsOfType(HeatInputTypes))
        /\ ret.den = 1

\* C9: on a solved cycle turbine_work is the sum of energy_balance over
\* exactly the devices of type turbine, and compressor_work over exactly
\* those of type compressor.
C9_WorkSums ==
    Solved =>
        /\ lastOp = "turbine_work" =>
              /\ ret.kind = "returned" /\ ret.den = 1
              /\ ret.num = SumOver(PositionsOfType({"turbine"}))
        /\ lastOp = "compressor_work" =>
              /\ ret.kind = "returned" /\ ret.den = 1
              /\ ret.num = SumOver(PositionsOfType({"compressor"}))

\* compressor_work read on a solved cycle that has a compressor and a pump,
\* both with a non-zero energy balance.
C9_Witness ==
    /\ Solved /\ lastOp = "compressor_work" /\ ret.num > 0
    /\ \E i \in PositionsOfType({"pump"}) : EnthalpyChangeAt(i) > 0
    /\ \E i \in PositionsOfType({"turbine"}) : EnthalpyChangeAt(i) > 0

\* C10 as stated: on a solved cycle get_efficiency() returns
\* (turbine_work - compressor_work) / heat_in, heat_in being the heat input
\* of the current device list (taken here where it is not zero).
C10_EfficiencyQuotient ==
    (/\ Solved /\ lastOp = "get_efficiency"
     /\ SumOver(PositionsOfType(HeatInputTypes)) # 0) =>
        /\ ret.kind = "returned"
        /\ ret.what \in {"float", "float64"}
        /\ ret.num * SumOver(PositionsOfType(HeatInputTypes)) =
              (SumOver(PositionsOfType({"turbine"}))
                 - SumOver(PositionsOfType({"compressor"}))) * ret.den

\* ------------------------------------------------- claims on single devices
\* The device the driver's last call was made on, as it is now.
Called == heap[driver.dev]

\* d with its two recorded states exchanged.
Swapped(d) ==
    [d EXCEPT !.inlet_state = d.outlet_state, !.outlet_state = d.inlet_state]

\* C11: for a device with both states recorded, energy_balance is the
\* absolute value of (outlet enthalpy - inlet enthalpy): it is read without
\* error, is not negative, is one of the two differences, and is the same for
\* the device with inlet and outlet exchanged; services.energy_balance of two
\* states is likewise the absolute difference, the same in either order.
C11_EnergyBalanceAbsolute ==
    /\ (/\ lastOp = "energy_balance"
        /\ Called.inlet_state # None /\ Called.outlet_state # None) =>
          /\ ret.kind = "returned" /\ ret.den = 1
          /\ ret.num >= 0
          /\ ret.num \in { Called.outlet_state.h - Called.inlet_state.h,
                           Called.inlet_state.h - Called.outlet_state.h }
          /\ energy_balance(Swapped(Called)).ok
          /\ energy_balance(Swapped(Called)).val = ret.num
    /\ lastOp = "services.energy_balance" =>
          /\ ret.kind = "returned" /\ ret.den = 1
          /\ ret.num >= 0
          /\ ret.num \in { driver.inlet_after.h - driver.inlet_state.h,
                           driver.inlet_state.h - driver.inlet_after.h }
          /\ services_energy_balance(driver.inlet_after, driver.inlet_state) = ret.num

\* The energy_balance of a device across which the enthalpy fell was read.
C11_Witness ==
    /\ lastOp = "energy_balance" /\ ret.kind = "returned"
    /\ Called.outlet_state.h < Called.inlet_state.h
    /\ ret.num = Called.inlet_state.h - Called.outlet_state.h

\* C12: reading energy_balance on a device whose inlet_state or outlet_state
\* is absent raises the not-yet-solved error (the ValueError of
\* SingleInletOutletDevice.energy_balance) and returns no number.
C12_AbsentStateNotSolvedError ==
    (/\ lastOp = "energy_balance"
     /\ (Called.inlet_state = None \/ Called.outlet_state = None)) =>
        ret = Raised("ValueError: states must be defined")

\* C13: a Turbine works in one mode, fixed at construction by whether an
\* energy-balance override was supplied: constructing one with an override
\* gives a turbine (that then works in energy-balance mode), and a turbine
\* built without one asks the backend for the expansion to its outlet
\* pressure every time it is exercised.
C13_ModeFixedAtConstruction ==
    /\ (lastOp = "__init__" /\ driver.energy_balance # << >>) =>
          (ret.kind = "returned" /\ Len(heap) = 1)
    /\ (/\ lastOp = "get_outlet_state" /\ Called.cls = "Turbine"
        /\ Turbine_init(driver.before[1], << >>).ok) =>
          driver.request.calls[2][1] = "expansion_to_pressure"

\* The last backend call of the driver's last request.
LastBackendCall == driver.request.calls[Len(driver.request.calls)]

\* The driver's last call exercised a turbine, or the turbine helper, with an
\* energy balance.
EnergyBalanceMode ==
    /\ lastOp \in {"get_outlet_state", "process"}
    /\ Called.cls = "Turbine"
    /\ driver.energy_balance # << >>

\* C14: a turbine exercised in energy-balance mode with energy balance X and
\* efficiency E (Called.efficiency hundredths) asks the backend to cool to the
\* enthalpy inlet_enthalpy - X/E exactly, which is: E times the enthalpy asked
\* for is E times the inlet enthalpy less 100 X.  The same for the helper
\* turbine_to_enthalpy.
C14_TargetEnthalpy ==
    EnergyBalanceMode =>
        /\ LastBackendCall[1] = "cooling_to_enthalpy"
        /\ LastBackendCall[2] * Called.efficiency =
              driver.inlet_state.h * Called.efficiency - 100 * driver.energy_balance[1]

\* A turbine of efficiency 0.5 was exercised with energy balance 1 and the
\* backend resolved the outlet, 2 below the inlet enthalpy.
C14_Witness ==
    /\ EnergyBalanceMode /\ lastOp = "get_outlet_state"
    /\ Called.efficiency = 50 /\ driver.energy_balance = <<1>>
    /\ ret.kind = "returned"
    /\ driver.returned.h = driver.inlet_state.h - 2

\* C15: the state a Condenser (or condense_to_pressure) returns is the
\* saturated-liquid point, quality 0, at the configured pressure, whatever
\* the inlet state.
C15_CondenserSaturatedLiquid ==
    (/\ lastOp \in {"get_outlet_state", "process"}
     /\ Called.cls = "Condenser"
     /\ ret.kind = "returned") =>
        /\ driver.returned.p = Called.pressure
        /\ driver.returned.x = 0

\* C16: a compressor (GasCompressor.get_outlet_state, or compress_to) asks
\* the backend to compress to inlet pressure x compression_ratio with the
\* isentropic efficiency efficiency x 100 percent (the stored hundredths), and
\* the state it returns has that pressure.
C16_CompressorOutletPressure ==
    (/\ lastOp \in {"get_outlet_state", "process"}
     /\ Called.cls = "GasCompressor"
     /\ driver.energy_balance = << >>) =>
        /\ LastBackendCall =
              <<"compression_to_pressure",
                driver.inlet_state.p * Called.compression_ratio, Called.efficiency>>
        /\ ret.kind = "returned" =>
              driver.returned.p = driver.inlet_state.p * Called.compression_ratio

\* A compressor of ratio 3 took an inlet at pressure 1 to pressure 3.
C16_Witness ==
    /\ lastOp = "get_outlet_state" /\ Called.cls = "GasCompressor"
    /\ Called.compression_ratio = 3 /\ driver.inlet_state.p = 1
    /\ ret.kind = "returned" /\ driver.returned.p = 3
    /\ driver.returned.h > driver.inlet_state.h

\* C18: get_outlet_state (and each helper) leaves the inlet state it is given
\* with the property values it had, for every device variant, whether it
\* returns or raises.
C18_InletStateUnchanged ==
    lastOp \in {"get_outlet_state", "process"} =>
        driver.inlet_after = driver.inlet_state

\* A pump, which makes its backend call on the inlet state itself, returned
\* an outlet that differs from the inlet.
C18_Witness ==
    /\ lastOp = "get_outlet_state" /\ Called.cls = "Pump"
    /\ ret.kind = "returned"
    /\ driver.returned # driver.inlet_state
    /\ Called.inlet_state = driver.inlet_state

\* ------------------------------------------------ claims on the cycle, II
\* C17: every device variant, Deaerator included, has get_outlet_state, so
\* in solve() the call on a Deaerator returns, and the state appended for it
\* is its inlet state.
C17_DeaeratorNoOp ==
    lastOp = "solve" =>
        \A j \in 1..Len(calls) :
            DeviceAt(calls[j].pos).cls = "Deaerator" =>
                /\ calls[j].ok
                /\ Len(states) > j
                /\ states[j + 1] = states[j]

\* C19: an error raised out of solve() because the device at position k
\* failed says which device failed, by its name and its position k.
C19_ErrorIdentifiesDevice ==
    (lastOp = "solve" /\ ret.kind = "raised") =>
        {"name", "position"} \subseteq ErrorMentions(ret.what)

\* ------------------------------------------------ claims on concurrency
\* The device objects as they were constructed.
Fresh == [id \in DOMAIN heap |->
             [heap[id] EXCEPT !.inlet_state = None, !.outlet_state = None]]

\* solve() of the cycle c with no other thread running.
Alone(c) == SolveLoopOn(c.devices, Fresh, <<c.initial_state>>, << >>, 1)

AggregateTags == {"turbine", "compressor", "combustion_chamber", "heat_source"}

\* The cycle c is as the lone solve that ended as r leaves it.
SameAsAlone(c, r) ==
    /\ c.states = r.states
    /\ c.err = r.err
    /\ \A i \in 1..Len(c.devices) : heap[c.devices[i]] = r.heap[c.devices[i]]
    /\ \A tag \in AggregateTags :
          SumEnergyBalanceOn(c.devices, heap, tag, 1) =
             SumEnergyBalanceOn(c.devices, r.heap, tag, 1)

\* C20: two cycles that share no Device object are solved by two threads
\* whose passes through the devices interleave in any order, with no lock:
\* when a thread's solve() has ended, its cycle has the trajectory, outcome,
\* recorded device states and sums that solving it alone gives.
C20_ConcurrentAsAlone ==
    \A w \in 1..Len(workers.cycle) :
        Finished(workers.cycle[w]) => SameAsAlone(workers.cycle[w], Alone(workers.cycle[w]))

\* Both solves returned, each of MaxChain devices, after steps of one thread
\* fell between steps of the other, and the two trajectories differ.
C20_Witness ==
    /\ Len(workers.cycle) = 2 /\ workers.overlapped
    /\ \A w \in 1..2 : /\ Finished(workers.cycle[w])
                       /\ workers.cycle[w].err = "none"
                       /\ Len(workers.cycle[w].devices) = MaxChain
    /\ workers.cycle[1].states # workers.cycle[2].states

\* ------------------------------------------------ claims on the Brayton chain
\* The cycle holds the whole chain and its last solve() returned.
BraytonSolved == Len(devices) = Len(BraytonChain) /\ Solved

\* C21: for the five-device Brayton chain, added and solved, turbine_work
\* less compressor_work is positive and get_efficiency() returns a number
\* that is above 0 and below 1.
C21_BraytonEfficiencyInRange ==
    (BraytonSolved /\ lastOp = "get_efficiency") =>
        /\ turbine_work.ok /\ compressor_work.ok
        /\ turbine_work.val - compressor_work.val > 0
        /\ ret.kind = "returned" /\ ret.what \in {"float", "float64"}
        /\ ret.den > 0 /\ ret.num > 0 /\ ret.num < ret.den

\* C22: the back-work ratio the driver derives for the gas cycle is the
\* compressor work divided by the turbine work: as a quotient num/den,
\* num x turbine work = den x compressor work.
C22_BackWorkRatio ==
    lastOp = "gas_bwr" =>
        /\ ret.kind = "returned" /\ ret.what = "float64"
        /\ ret.num * (Abs(states[4].h - states[3].h) + Abs(states[6].h - states[5].h))
              = ret.den * Abs(states[2].h - states[1].h)


\* ------------------------------------------------ claims on the aggregates
\* The category a property sums.
TagOf(op) ==
    CASE op = "turbine_work" -> "turbine"
      [] op = "compressor_work" -> "compressor"
      [] op = "heat_in" -> "combustion_chamber"

AggregateReads == {"turbine_work", "compressor_work", "heat_in"}

\* What the property op would return were the device list in the order f.
ReadInOrder(op, f) ==
    PropertyRead(SumEnergyBalanceOn(Reordered(devices, f), heap, TagOf(op), 1))

\* The exact sum of the energy balances of the devices of a category.
RECURSIVE ExactSum(_, _)
ExactSum(tag, i) ==
    IF i > Len(devices) THEN 0
    ELSE (IF device_type(heap[devices[i]]) = tag
          THEN energy_balance(heap[devices[i]]).val ELSE 0) + ExactSum(tag, i + 1)

\* The devices of a category.
Matching(tag) == {i \in 1..Len(devices) : device_type(heap[devices[i]]) = tag}

\* C23 (as stated): a read of turbine_work, compressor_work or heat_in
\* returns the value it would return for every other order of the device
\* list, the devices keeping their energy balances.
C23_OrderIndependent ==
    lastOp \in AggregateReads =>
        \A f \in Orders(Len(devices)) : ret = ReadInOrder(lastOp, f)

\* C23 (amended): in every order of the device list the read returns, and a
\* value of the same type; the value is the same in every order when at most
\* two devices are of the category, or when the exact sum is below
\* 2^MantissaBits, so that no addition rounds. (Three or more balances are
\* added left to right in list order, and float addition is not associative.)
C23_OrderIndependentUpToRounding ==
    lastOp \in AggregateReads =>
        \A f \in Orders(Len(devices)) :
            /\ ReadInOrder(lastOp, f).kind = ret.kind
            /\ ReadInOrder(lastOp, f).what = ret.what
            /\ (Cardinality(Matching(TagOf(lastOp))) <= 2
                \/ ExactSum(TagOf(lastOp), 1) < Pow2(MantissaBits))
                   => ReadInOrder(lastOp, f) = ret

\* C23 witness: turbine_work was read over two turbines of different
\* balances, with a compressor between them.
C23_Witness ==
    /\ lastOp = "turbine_work"
    /\ ret.kind = "returned" /\ ret.what = "float64"
    /\ Len(devices) = 3
    /\ Matching("turbine") = {1, 3}
    /\ energy_balance(heap[devices[1]]).val # energy_balance(heap[devices[3]]).val

\* --------------------------------------------- claims on the cycle, III
\* C24: solve() starts from the trajectory [initial_state], whatever an
\* earlier solve left, and exercises the devices in list order, each position
\* once: call j is on device j, is made only if call j-1 returned, and its
\* inlet is the last element of the trajectory at that moment, which is
\* initial_state for the first device and the outlet call j-1 returned for
\* the others.  When solve() returns, every device was exercised.
C24_SolveInOrder ==
    [][lastOp' = "solve" =>
          /\ Len(calls') <= Len(devices)
          /\ ret'.kind = "returned" => Len(calls') = Len(devices)
          /\ \A j \in 1..Len(calls') :
                /\ calls'[j].pos = j
                /\ calls'[j].dev = devices[j]
                /\ calls'[j].inlet = calls'[j].last
                /\ j = 1 => calls'[j].inlet = initial_state
                /\ j > 1 => /\ calls'[j - 1].ok
                            /\ calls'[j].inlet = calls'[j - 1].outlet]_vars

\* C24 witness: a second solve() over two devices or more has returned, and
\* the trajectory it replaced ended in another state than initial_state.
C24_Witness ==
    /\ lastOp = "solve"
    /\ solveRun = 2
    /\ ret.kind = "returned"
    /\ Len(calls) >= 2
    /\ states[Len(states)] # initial_state

\* ---------------------------------------------- claims on single devices, II
\* C25: after a get_outlet_state(s) that returns, the device's inlet_state is
\* s and its outlet_state is the state returned, whatever it had recorded;
\* after a Pump.get_inlet_state(o, p) that returns, the pump's outlet_state
\* is o and its inlet_state is the state returned.
C25_StatesRecorded ==
    /\ (lastOp = "get_outlet_state" /\ ret.kind = "returned") =>
           /\ heap[driver.dev].inlet_state = driver.inlet_state
           /\ heap[driver.dev].outlet_state = driver.returned
           /\ driver.returned # None
    /\ (lastOp = "get_inlet_state" /\ ret.kind = "returned") =>
           /\ heap[driver.dev].outlet_state = driver.inlet_state
           /\ heap[driver.dev].inlet_state = driver.returned
           /\ driver.returned # None

\* C25 witness: a pump that had an inlet and an outlet recorded was asked for
\* its inlet state from another outlet, and returned another inlet.
C25_Witness ==
    /\ lastOp = "get_inlet_state"
    /\ ret.kind = "returned"
    /\ driver.before[1].inlet_state # None
    /\ driver.before[1].outlet_state # None
    /\ driver.before[1].outlet_state # driver.inlet_state
    /\ driver.before[1].inlet_state # driver.returned

\* C26: Turbine.get_outlet_state with an energy balance asks the backend to
\* cool with a pressure drop of |inlet pressure - outlet_pressure|, and a
\* state it returns has the pressure outlet_pressure when outlet_pressure is
\* not above the inlet pressure.
C26_PressureDrop ==
    (EnergyBalanceMode /\ lastOp = "get_outlet_state") =>
        /\ LastBackendCall[1] = "cooling_to_enthalpy"
        /\ LastBackendCall[3] = Abs(driver.inlet_state.p - Called.outlet_pressure)
        /\ (ret.kind = "returned" /\ Called.outlet_pressure <= driver.inlet_state.p) =>
               driver.returned.p = Called.outlet_pressure

\* C26 witness: a turbine with outlet_pressure 1 was given an inlet at
\* pressure 2 and an energy balance, and returned a state.
C26_Witness ==
    /\ EnergyBalanceMode /\ lastOp = "get_outlet_state"
    /\ Called.outlet_pressure = 1 /\ driver.inlet_state.p = 2
    /\ ret.kind = "returned"
    /\ driver.returned.p = 1

\* C27: a get_outlet_state that raises leaves the device's inlet_state and
\* outlet_state as they were before the call.
C27_FailedCallLeavesRecords ==
    (lastOp = "get_outlet_state" /\ ret.kind = "raised") =>
        /\ Called.inlet_state = driver.before[1].inlet_state
        /\ Called.outlet_state = driver.before[1].outlet_state

\* ------------------------------------------------ claims on the cycle, IV
\* C28: when get_efficiency() is called on a solved cycle that has a
\* HeatSourceDevice whose outlet enthalpy is not its inlet enthalpy, heat_in
\* is not zero and the call returns a finite quotient: nothing is divided by
\* zero.
C28_HeatInNotZero ==
    (/\ Solved /\ lastOp = "get_efficiency" /\ ~IsNotSolved
     /\ \E i \in 1..Len(devices) :
           /\ DeviceAt(i).cls = "HeatSourceDevice"
           /\ DeviceAt(i).outlet_state.h # DeviceAt(i).inlet_state.h) =>
        /\ heat_in.ok
        /\ heat_in.val # 0
        /\ ret.kind = "returned"
        /\ ret.what \in {"float", "float64"}

\* ------------------------------------------------ claims on the helpers
\* The request the device the helper was called for makes for the same
\* inlet state and energy balance.
CounterpartRequest == DeviceRequest(Called, driver.inlet_state, driver.energy_balance)

\* C29: a helper called with a device's parameters makes the backend call the
\* device's get_outlet_state makes for the same inlet state: the same method
\* with the same arguments, on a state of the same fluid.
C29_HelperMatchesDevice ==
    lastOp = "process" =>
        /\ driver.request.fluid = CounterpartRequest.fluid
        /\ LastBackendCall = CounterpartRequest.calls[Len(CounterpartRequest.calls)]
=========================================================================
